---- MODULE Spec2Model ----
(***************************************************************************)
(* A model of ChatGPT2docX.py: the conversion of a ChatGPT export archive  *)
(* (conversations.json plus a Dalle-generations folder) into one .docx per *)
(* conversation, packed into conversations_output.zip.                     *)
(*                                                                         *)
(* Strings are sequences of one-character strings, so that strip, replace, *)
(* split, startswith and the literal prefixes are computed, not assumed.   *)
(* Three specifications share the module:                                  *)
(*   Spec      generate_conversations_zip, step by step                    *)
(*   SpecFind  find_image_for_asset over ordered indexes                   *)
(*   SpecLoad  load_json_with_fallback over encoded logs                   *)
(***************************************************************************)
EXTENDS Integers, Sequences, FiniteSets, TLC

VARIABLES
    zip_file,            \* the uploaded archive (input)
    pc,                  \* position in generate_conversations_zip
    exc,                 \* the exception that ended the run, or "none"
    tempdirs,            \* directories made by tempfile.mkdtemp that still exist
    disk,                \* extracted image folder: path -> "image" | "corrupt" | "dir" | "absent"
    image_paths,         \* the image index: sequence of [file_name, path]
    conversations_data,  \* the parsed log
    ci,                  \* index of the conversation being rendered
    ni,                  \* index of the node of the mapping being visited
    pi,                  \* index of the part of the node being rendered
    doc,                 \* the Document under construction: sequence of items
    src,                 \* history: for each item of doc, the <<node, part>> that emitted it
    docx_dir,            \* files saved in docx_temp_dir: path -> document
    docx_files,          \* the list docx_files
    zipf,                \* entries written to the result archive, in order
    zi,                  \* index of the next docx_file to pack
    result,              \* the returned zip_output_path, or <<>>
    stdout,              \* lines printed by "Image manquante pour : ..."
    asset_pointer,       \* SpecFind: the identifier looked up
    index,               \* SpecFind: the image index searched
    found,               \* SpecFind: [called, path]
    log_text,            \* SpecLoad: the text the log was written from (code points)
    log_encoding,        \* SpecLoad: the encoding the log was written with
    file_bytes,          \* SpecLoad: the bytes of conversations.json
    enc_i,               \* SpecLoad: index of the next encoding to try
    load_pc,             \* SpecLoad: "loop" | "returned" | "raised"
    load_result          \* SpecLoad: the value json.load returned

runVars  == <<zip_file, pc, exc, tempdirs, disk, image_paths, conversations_data,
              ci, ni, pi, doc, src, docx_dir, docx_files, zipf, zi, result, stdout>>
findVars == <<asset_pointer, index, found>>
loadVars == <<log_text, log_encoding, file_bytes, enc_i, load_pc, load_result>>
vars     == <<runVars, findVars, loadVars>>

(***************************************************************************)
(* Bounds of the model.                                                    *)
(***************************************************************************)
MaxNodes == 2       \* nodes in the mapping of the detailed conversation
MaxParts == 2       \* parts, in total, in the detailed conversation
MaxConvs == 3       \* conversations in a batch
MaxFiles == 2       \* files in the index searched by SpecFind
MaxTitleLen == 2    \* code points in the title of an encoded log

(***************************************************************************)
(* String literals of the source, and of the inputs.                       *)
(***************************************************************************)
UtilisateurPrefix == <<"U", "t", "i", "l", "i", "s", "a", "t", "e", "u", "r", " ", ":", " ">>
AssistantPrefix == <<"A", "s", "s", "i", "s", "t", "a", "n", "t", " ", ":", " ">>
ImageCaptionPrefix == <<"(", "I", "m", "a", "g", "e", " ", ":", " ">>
ErreurPrefix == <<"(", "E", "r", "r", "e", "u", "r", " ", "l", "o", "r", "s", " ", "d", "e", " ", "l", "'", "i", "n", "s", "e", "r", "t", "i", "o", "n", " ", "d", "e", " ", "l", "'", "i", "m", "a", "g", "e", " ", ":", " ">>
DocxSuffix == <<".", "d", "o", "c", "x">>
ZipName == <<"c", "o", "n", "v", "e", "r", "s", "a", "t", "i", "o", "n", "s", "_", "o", "u", "t", "p", "u", "t", ".", "z", "i", "p">>
DalleDir == <<"D", "a", "l", "l", "e", "-", "g", "e", "n", "e", "r", "a", "t", "i", "o", "n", "s">>
\* the message of PIL's UnidentifiedImageError, the {e} of the error paragraph
CannotIdentify == <<"c", "a", "n", "n", "o", "t", " ", "i", "d", "e", "n", "t", "i", "f", "y", " ", "i", "m", "a", "g", "e", " ", "f", "i", "l", "e">>
\* the two directories tempfile.mkdtemp hands out
ExtractPath == <<"/", "t", "1">>
DocxTempDir == <<"/", "t", "2">>

Hello == <<"H", "e", "l", "l", "o">>
World == <<"W", "o", "r", "l", "d">>
PaddedWorld == <<" ", "W", "o", "r", "l", "d", "\n">>
BlankText == <<" ", "\n">>
Demo == <<"D", "e", "m", "o">>
TitleSpace == <<"A", " ", "B">>
TitleUnderscore == <<"A", "_", "B">>
TitleSlash == <<"a", "/", "b">>
PointerAbc123 == <<"f", "i", "l", "e", "-", "s", "e", "r", "v", "i", "c", "e", ":", "/", "/", "a", "b", "c", "1", "2", "3">>
PointerXyz == <<"x", "y", "z">>
Abc123Png == <<"a", "b", "c", "1", "2", "3", ".", "p", "n", "g">>
Abc123v2Png == <<"a", "b", "c", "1", "2", "3", "-", "2", ".", "p", "n", "g">>
AbcPng == <<"a", "b", "c", ".", "p", "n", "g">>
XyzJpg == <<"x", "y", "z", ".", "j", "p", "g">>
Abc123 == <<"a", "b", "c", "1", "2", "3">>
Abc == <<"a", "b", "c">>
Png == <<"p", "n", "g">>

(***************************************************************************)
(* str and os.path operations.                                             *)
(***************************************************************************)
Whitespace == {" ", "\n", "\t", "\r"}

RECURSIVE lstrip(_)
lstrip(s) == IF s # <<>> /\ Head(s) \in Whitespace THEN lstrip(Tail(s)) ELSE s

RECURSIVE rstrip(_)
rstrip(s) ==
    IF s # <<>> /\ s[Len(s)] \in Whitespace THEN rstrip(SubSeq(s, 1, Len(s) - 1)) ELSE s

\* str.strip()
strip(s) == rstrip(lstrip(s))

\* str.replace(' ', '_')
replace_spaces(s) == [k \in 1..Len(s) |-> IF s[k] = " " THEN "_" ELSE s[k]]

\* str.startswith(prefix)
startswith(s, prefix) ==
    Len(prefix) <= Len(s) /\ SubSeq(s, 1, Len(prefix)) = prefix

\* the position of the last "/" of s, 0 when there is none
LastSlash(s) ==
    LET at == {k \in 1..Len(s) : s[k] = "/"}
    IN IF at = {} THEN 0 ELSE CHOOSE k \in at : \A j \in at : j <= k

\* s.split('/')[-1] and os.path.basename(s)
basename(s) == SubSeq(s, LastSlash(s) + 1, Len(s))

\* os.path.dirname(s), for the absolute paths of the model
dirname(s) == SubSeq(s, 1, LastSlash(s) - 1)

\* os.path.join(a, b): an absolute b discards a
join(a, b) == IF b # <<>> /\ Head(b) = "/" THEN b ELSE a \o <<"/">> \o b

(***************************************************************************)
(* The export's data: parts, nodes, conversations.                         *)
(***************************************************************************)
\* a string part
TextPart(t) == [type |-> "str", text |-> t, content_type |-> "none", asset_pointer |-> <<>>]
\* a dict part {"content_type": "image_asset_pointer", "asset_pointer": p}
ImagePart(p) ==
    [type |-> "dict", text |-> <<>>, content_type |-> "image_asset_pointer", asset_pointer |-> p]
\* a dict part of another content type, e.g. {"content_type": "code"}
OtherPart == [type |-> "dict", text |-> <<>>, content_type |-> "code", asset_pointer |-> <<>>]

\* a node whose 'message' is missing or null
NoMessage == [has_message |-> FALSE, has_author |-> FALSE, role |-> "none", parts |-> <<>>]
\* a node with a message that has no 'author' key
NoAuthor == [has_message |-> TRUE, has_author |-> FALSE, role |-> "none", parts |-> <<>>]
\* a node with a well-formed message
Message(role, parts) ==
    [has_message |-> TRUE, has_author |-> TRUE, role |-> role, parts |-> parts]

\* a conversation; an absent 'mapping' reads as the empty one (.get('mapping', {}))
Conversation(title, mapping) == [title |-> title, mapping |-> mapping]

(***************************************************************************)
(* The Document: a sequence of block items.                                *)
(***************************************************************************)
NoColor == <<>>
AccentColor == <<0, 102, 204>>

Block(kind, text, style, bold, underline, color, align) ==
    [kind |-> kind, text |-> text, style |-> style, bold |-> bold,
     underline |-> underline, color |-> color, align |-> align]

\* doc.add_paragraph(): an empty paragraph
EmptyParagraph == Block("paragraph", <<>>, "None", FALSE, FALSE, NoColor, "None")

\* doc.add_picture(stream, width=Inches(4)), then centred
Picture(path) == Block("picture", path, "None", FALSE, FALSE, NoColor, "CENTER")

\* add_styled_paragraph(doc, text, ...): the paragraph it appends
add_styled_paragraph(text, style, bold, underline, color, align) ==
    Block("paragraph", text, style, bold, underline, color, align)

\* the two items every document starts with
title_items(conversation) ==
    << add_styled_paragraph(conversation.title, "Title", TRUE, FALSE, NoColor, "CENTER"),
       EmptyParagraph >>

(***************************************************************************)
(* The image index.                                                        *)
(***************************************************************************)
\* map_images_to_identifiers: the regular files of the folder, in listing order
RECURSIVE map_images_to_identifiers(_, _)
map_images_to_identifiers(images_dir, listing) ==
    IF listing = <<>> THEN <<>>
    ELSE LET file == Head(listing)
             rest == map_images_to_identifiers(images_dir, Tail(listing))
         IN IF file.content \in {"image", "corrupt"}
            THEN <<[file_name |-> file.file_name, path |-> join(images_dir, file.file_name)]>> \o rest
            ELSE rest

\* get_image_paths_from_zip: the index of the extracted archive
get_image_paths_from_zip(archive, extract_path) ==
    IF ~archive.has_dalle THEN <<>>
    ELSE map_images_to_identifiers(join(extract_path, DalleDir), archive.dalle)

\* the extracted image folder: path -> kind of file
ExtractedFiles(archive, extract_path) ==
    IF ~archive.has_dalle THEN <<>>
    ELSE [k \in 1..Len(archive.dalle) |->
            [path |-> join(join(extract_path, DalleDir), archive.dalle[k].file_name),
             content |-> archive.dalle[k].content]]

\* what is at `path` now
FileAt(files, path) ==
    IF \E k \in 1..Len(files) : files[k].path = path
    THEN (CHOOSE f \in {files[k] : k \in 1..Len(files)} : f.path = path).content
    ELSE "absent"

None == [found |-> FALSE, path |-> <<>>]
Some(path) == [found |-> TRUE, path |-> path]

\* variant: the last entry whose name starts with the pointer
find_last_match(pointer, paths) ==
    LET hits == {k \in 1..Len(paths) : startswith(paths[k].file_name, pointer)}
    IN IF hits = {} THEN None
       ELSE Some(paths[CHOOSE k \in hits : \A j \in hits : j <= k].path)

\* find_image_for_asset: the first entry whose name starts with the pointer
RECURSIVE find_image_for_asset(_, _)
find_image_for_asset(pointer, paths) ==
    IF paths = <<>> THEN None
    ELSE IF startswith(Head(paths).file_name, pointer) THEN Some(Head(paths).path)
    ELSE find_image_for_asset(pointer, Tail(paths))

(***************************************************************************)
(* create_conversation_doc: what one part adds to the document.            *)
(***************************************************************************)
\* variant: any string, blank or not
keeps_blank_text(part) == part.type = "str"

\* isinstance(part, str) and part.strip()
is_rendered_text(part) == part.type = "str" /\ strip(part.text) # <<>>

\* isinstance(part, dict) and part.get('content_type') == 'image_asset_pointer'
is_image_pointer(part) ==
    part.type = "dict" /\ part.content_type = "image_asset_pointer"

\* variant: the text as it is, not stripped
text_paragraph_unstripped(author, part) ==
    IF author = "user"
    THEN add_styled_paragraph(UtilisateurPrefix \o part.text,
                              "None", TRUE, TRUE, AccentColor, "None")
    ELSE add_styled_paragraph(AssistantPrefix \o part.text,
                              "None", FALSE, FALSE, NoColor, "None")

\* the paragraph of a text part
text_paragraph(author, part) ==
    IF author = "user"
    THEN add_styled_paragraph(UtilisateurPrefix \o strip(part.text),
                              "None", TRUE, TRUE, AccentColor, "None")
    ELSE add_styled_paragraph(AssistantPrefix \o strip(part.text),
                              "None", FALSE, FALSE, NoColor, "None")

\* the asset identifier of an image part: asset_pointer.split('/')[-1]
asset_id(part) == basename(part.asset_pointer)

\* variant: without the os.path.exists test
image_indexed(part, paths, files) ==
    find_image_for_asset(basename(part.asset_pointer), paths).found

\* image_file_path and os.path.exists(image_file_path)
image_available(part, paths, files) ==
    LET hit == find_image_for_asset(asset_id(part), paths)
    IN hit.found /\ hit.path # <<>> /\ FileAt(files, hit.path) # "absent"

\* the try block: picture and caption, or the paragraph of the except branch
embedded_image(path, files) ==
    IF FileAt(files, path) = "image"
    THEN << EmptyParagraph,
            Picture(path),
            add_styled_paragraph(ImageCaptionPrefix \o basename(path) \o <<")">>,
                                 "Normal", FALSE, FALSE, NoColor, "CENTER") >>
    ELSE << add_styled_paragraph(ErreurPrefix \o CannotIdentify \o <<")">>,
                                 "None", FALSE, FALSE, NoColor, "None") >>

\* the items one part appends to the document
part_items(author, part, paths, files) ==
    IF is_rendered_text(part) THEN << text_paragraph(author, part) >>
    ELSE IF is_image_pointer(part)
    THEN IF image_available(part, paths, files)
         THEN embedded_image(find_image_for_asset(asset_id(part), paths).path, files)
         ELSE <<>>
    ELSE <<>>

\* the lines one part prints: "Image manquante pour : <identifier>"
part_prints(part, paths, files) ==
    IF ~is_rendered_text(part) /\ is_image_pointer(part)
       /\ ~image_available(part, paths, files)
    THEN << asset_id(part) >>
    ELSE <<>>

\* the output path: os.path.join(output_dir, title.replace(' ', '_') + ".docx")
output_file_path(conversation, output_dir) ==
    join(output_dir, replace_spaces(conversation.title) \o DocxSuffix)

\* doc.save(path) can create the file: its directory exists
can_save(path, dirs) == dirname(path) \in dirs

(***************************************************************************)
(* create_conversation_doc as a function of its input: the outcome of one  *)
(* call, [raised, doc, path].                                              *)
(***************************************************************************)
RECURSIVE render_parts(_, _, _, _)
render_parts(author, parts, paths, files) ==
    IF parts = <<>> THEN <<>>
    ELSE part_items(author, Head(parts), paths, files)
         \o render_parts(author, Tail(parts), paths, files)

RECURSIVE render_nodes(_, _, _)
render_nodes(mapping, paths, files) ==
    IF mapping = <<>> THEN [raised |-> FALSE, items |-> <<>>]
    ELSE LET node == Head(mapping)
         IN IF ~node.has_message THEN render_nodes(Tail(mapping), paths, files)
            ELSE IF ~node.has_author THEN [raised |-> TRUE, items |-> <<>>]
            ELSE LET rest == render_nodes(Tail(mapping), paths, files)
                 IN [raised |-> rest.raised,
                     items |-> IF rest.raised THEN <<>>
                               ELSE render_parts(node.role, node.parts, paths, files)
                                    \o rest.items]

create_conversation_doc(conversation, paths, files, dirs, output_dir) ==
    LET body == render_nodes(conversation.mapping, paths, files)
        path == output_file_path(conversation, output_dir)
    IN IF body.raised THEN [raised |-> "KeyError", doc |-> <<>>, path |-> <<>>]
       ELSE IF ~can_save(path, dirs)
       THEN [raised |-> "FileNotFoundError", doc |-> <<>>, path |-> <<>>]
       ELSE [raised |-> "none", doc |-> title_items(conversation) \o body.items,
             path |-> path]

(***************************************************************************)
(* The inputs of Spec.                                                     *)
(***************************************************************************)
\* the parts of the detailed conversation
PartSet ==
    { TextPart(PaddedWorld), TextPart(BlankText), ImagePart(PointerAbc123), OtherPart }

\* the nodes with exactly k parts
NodesWith(k) ==
    (IF k = 0 THEN {NoMessage, NoAuthor} ELSE {})
    \cup { Message(role, parts) : role \in {"user", "assistant"}, parts \in [1..k -> PartSet] }

\* the mappings of at most n nodes holding at most p parts in total
RECURSIVE MappingsWith(_, _)
MappingsWith(n, p) ==
    IF n = 0 THEN { <<>> }
    ELSE { <<>> } \cup
         UNION { { <<node>> \o rest : node \in NodesWith(k),
                                      rest \in MappingsWith(n - 1, p - k) } : k \in 0..p }

\* the Dalle-generations folders of the detailed conversation
DetailedFolders ==
    { [has_dalle |-> FALSE, dalle |-> <<>>],
      [has_dalle |-> TRUE, dalle |-> <<[file_name |-> Abc123Png, content |-> "image"]>>],
      [has_dalle |-> TRUE, dalle |-> <<[file_name |-> Abc123Png, content |-> "corrupt"]>>] }

\* the round-trip conversation: user "Hello", assistant "World"
DemoMapping == << NoMessage, Message("user", <<TextPart(Hello)>>),
                  Message("assistant", <<TextPart(World)>>) >>

\* the conversations of a batch
BatchConvs ==
    { Conversation(Demo, DemoMapping),
      Conversation(TitleSpace, <<Message("user", <<TextPart(Hello)>>)>>),
      Conversation(TitleUnderscore, <<>>),
      Conversation(World, <<Message("system", <<TextPart(PaddedWorld)>>)>>),
      Conversation(TitleSlash, <<>>),
      Conversation(Demo, <<Message("user", <<TextPart(Hello)>>), NoAuthor>>),
      Conversation(Hello, <<Message("assistant", <<ImagePart(PointerXyz),
                                                     ImagePart(PointerAbc123),
                                                     TextPart(Hello)>>)>>) }

\* the folder of a batch: a sub-directory and one image
BatchFolder ==
    [has_dalle |-> TRUE,
     dalle |-> << [file_name |-> XyzJpg, content |-> "dir"],
                  [file_name |-> Abc123Png, content |-> "image"] >>]

Archive(valid, log_state, log, folder) ==
    [valid |-> valid, log_state |-> log_state, log |-> log,
     has_dalle |-> folder.has_dalle, dalle |-> folder.dalle]

\* one conversation in detail
DetailedArchives ==
    { Archive(TRUE, "ok", <<Conversation(Demo, m)>>, f) :
        m \in MappingsWith(MaxNodes, MaxParts), f \in DetailedFolders }

\* up to MaxConvs conversations
BatchArchives ==
    { Archive(TRUE, "ok", log, BatchFolder) :
        log \in UNION { [1..n -> BatchConvs] : n \in 0..MaxConvs } }

\* not a zip file; no conversations.json in it; a log no encoding parses
FatalArchives ==
    { Archive(FALSE, "missing", <<>>, BatchFolder),
      Archive(TRUE, "missing", <<>>, BatchFolder),
      Archive(TRUE, "undecodable", <<>>, BatchFolder) }

FindIdle == asset_pointer = <<>> /\ index = <<>> /\ found = [called |-> FALSE, hit |-> None]

LoadIdle ==
    /\ log_text = <<>> /\ log_encoding = "none" /\ file_bytes = <<>>
    /\ enc_i = 1 /\ load_pc = "idle" /\ load_result = <<>>

RunIdle ==
    /\ pc = "start" /\ exc = "none" /\ tempdirs = {} /\ disk = <<>>
    /\ image_paths = <<>> /\ conversations_data = <<>>
    /\ ci = 0 /\ ni = 0 /\ pi = 0 /\ doc = <<>> /\ src = <<>>
    /\ docx_dir = <<>> /\ docx_files = <<>> /\ zipf = <<>> /\ zi = 0
    /\ result = <<>> /\ stdout = <<>>

Init ==
    /\ zip_file \in DetailedArchives \cup BatchArchives \cup FatalArchives
    /\ RunIdle /\ FindIdle /\ LoadIdle

(***************************************************************************)
(* generate_conversations_zip, step by step.                               *)
(***************************************************************************)
conversation == conversations_data[ci]

\* variant: the nodes visited last to first
items_reversed(mapping) == [k \in 1..Len(mapping) |-> Len(mapping) + 1 - k]

\* line 80, mapping.items(): the stored positions of the nodes, in the order visited
items(mapping) == [k \in 1..Len(mapping) |-> k]

\* the node the loop is at
node_data == conversation.mapping[items(conversation.mapping)[ni]]

raise(e) == pc' = "raised" /\ exc' = e

\* the file saved at `path`, or <<>>
Saved(dir, path) ==
    IF \E k \in 1..Len(dir) : dir[k].path = path
    THEN (CHOOSE f \in {dir[k] : k \in 1..Len(dir)} : f.path = path).content
    ELSE <<>>

\* doc.save(path): creates or overwrites the file
save(dir, path, content) ==
    IF \E k \in 1..Len(dir) : dir[k].path = path
    THEN [k \in 1..Len(dir) |->
            IF dir[k].path = path THEN [path |-> path, content |-> content] ELSE dir[k]]
    ELSE Append(dir, [path |-> path, content |-> content])

\* lines 135-136: mkdtemp, extractall, map_images_to_identifiers
extract ==
    /\ pc = "start"
    /\ tempdirs' = tempdirs \cup {ExtractPath}
    /\ IF ~zip_file.valid
       THEN raise("BadZipFile") /\ UNCHANGED <<disk, image_paths>>
       ELSE /\ disk' = ExtractedFiles(zip_file, ExtractPath)
            /\ image_paths' = get_image_paths_from_zip(zip_file, ExtractPath)
            /\ pc' = "load" /\ UNCHANGED exc
    /\ UNCHANGED <<findVars, loadVars>>
    /\ UNCHANGED <<zip_file, conversations_data, ci, ni, pi, doc, src, docx_dir,
                   docx_files, zipf, zi, result, stdout>>

\* an indexed image file is removed before it is embedded (os.path.exists, line 107)
image_file_removed ==
    /\ pc = "load"
    /\ \E k \in 1..Len(disk) :
          /\ disk[k].content \in {"image", "corrupt"}
          /\ disk' = [disk EXCEPT ![k].content = "absent"]
    /\ UNCHANGED <<findVars, loadVars>>
    /\ UNCHANGED <<zip_file, pc, exc, tempdirs, image_paths, conversations_data, ci, ni,
                   pi, doc, src, docx_dir, docx_files, zipf, zi, result, stdout>>

\* lines 137-144: load the log, make docx_temp_dir
load ==
    /\ pc = "load"
    /\ IF zip_file.log_state = "missing"
       THEN raise("FileNotFoundError")
            /\ UNCHANGED <<tempdirs, conversations_data, ci>>
       ELSE IF zip_file.log_state = "undecodable"
       THEN raise("ValueError")
            /\ UNCHANGED <<tempdirs, conversations_data, ci>>
       ELSE /\ conversations_data' = zip_file.log
            /\ tempdirs' = tempdirs \cup {DocxTempDir}
            /\ ci' = 1
            /\ pc' = "loop" /\ UNCHANGED exc
    /\ UNCHANGED <<findVars, loadVars>>
    /\ UNCHANGED <<zip_file, disk, image_paths, ni, pi, doc, src, docx_dir, docx_files,
                   zipf, zi, result, stdout>>

\* lines 146-147, 69-78: the next conversation; Document(), title, spacing
begin_doc ==
    /\ pc = "loop" /\ ci <= Len(conversations_data)
    /\ doc' = title_items(conversation)
    /\ src' = << <<0, 0>>, <<0, 0>> >>
    /\ ni' = 1 /\ pi' = 0
    /\ pc' = "nodes"
    /\ UNCHANGED <<findVars, loadVars>>
    /\ UNCHANGED <<zip_file, exc, tempdirs, disk, image_paths, conversations_data, ci,
                   docx_dir, docx_files, zipf, zi, result, stdout>>

\* lines 80-86: the next node of the mapping
next_node ==
    /\ pc = "nodes"
    /\ IF ni > Len(conversation.mapping)
       THEN pc' = "save" /\ UNCHANGED <<exc, ni, pi>>
       ELSE IF ~node_data.has_message
       THEN ni' = ni + 1 /\ UNCHANGED <<pc, exc, pi>>
       ELSE IF ~node_data.has_author
       THEN raise("KeyError") /\ UNCHANGED <<ni, pi>>
       ELSE pi' = 1 /\ pc' = "parts" /\ UNCHANGED <<exc, ni>>
    /\ UNCHANGED <<findVars, loadVars>>
    /\ UNCHANGED <<zip_file, tempdirs, disk, image_paths, conversations_data, ci, doc, src,
                   docx_dir, docx_files, zipf, zi, result, stdout>>

\* lines 88-127: the next part of the node
render_part ==
    /\ pc = "parts"
    /\ IF pi > Len(node_data.parts)
       THEN /\ ni' = ni + 1 /\ pi' = 0 /\ pc' = "nodes"
            /\ UNCHANGED <<doc, src, stdout>>
       ELSE LET part == node_data.parts[pi]
                added == part_items(node_data.role, part, image_paths, disk)
                at == items(conversation.mapping)[ni]
            IN /\ doc' = doc \o added
               /\ src' = src \o [k \in 1..Len(added) |-> <<at, pi>>]
               /\ stdout' = stdout \o part_prints(part, image_paths, disk)
               /\ pi' = pi + 1
               /\ UNCHANGED <<pc, ni>>
    /\ UNCHANGED <<findVars, loadVars>>
    /\ UNCHANGED <<zip_file, exc, tempdirs, disk, image_paths, conversations_data, ci,
                   docx_dir, docx_files, zipf, zi, result>>

\* lines 129-131, 148: save the document, append its path to docx_files
save_doc ==
    /\ pc = "save"
    /\ LET path == output_file_path(conversation, DocxTempDir)
       IN IF ~can_save(path, tempdirs)
          THEN raise("FileNotFoundError") /\ UNCHANGED <<docx_dir, docx_files, ci>>
          ELSE /\ docx_dir' = save(docx_dir, path, doc)
               /\ docx_files' = Append(docx_files, path)
               /\ ci' = ci + 1
               /\ pc' = "loop" /\ UNCHANGED exc
    /\ UNCHANGED <<findVars, loadVars>>
    /\ UNCHANGED <<zip_file, tempdirs, disk, image_paths, conversations_data, ni, pi, doc,
                   src, zipf, zi, result, stdout>>

\* lines 151-152: the loop is over; open conversations_output.zip
open_zip ==
    /\ pc = "loop" /\ ci > Len(conversations_data)
    /\ zipf' = <<>> /\ zi' = 1
    /\ pc' = "zip"
    /\ UNCHANGED <<findVars, loadVars>>
    /\ UNCHANGED <<zip_file, exc, tempdirs, disk, image_paths, conversations_data, ci, ni,
                   pi, doc, src, docx_dir, docx_files, result, stdout>>

\* variant: the entry named by the whole path
zip_entry_full_path(docx_file, dir) ==
    [arcname |-> docx_file, content |-> Saved(dir, docx_file)]

\* the entry zipf.write(docx_file, os.path.basename(docx_file)) adds
zip_entry(docx_file, dir) ==
    [arcname |-> basename(docx_file), content |-> Saved(dir, docx_file)]

\* lines 153-154: pack the next docx_file
zip_write ==
    /\ pc = "zip" /\ zi <= Len(docx_files)
    /\ zipf' = Append(zipf, zip_entry(docx_files[zi], docx_dir))
    /\ zi' = zi + 1
    /\ UNCHANGED <<findVars, loadVars>>
    /\ UNCHANGED <<zip_file, pc, exc, tempdirs, disk, image_paths, conversations_data, ci,
                   ni, pi, doc, src, docx_dir, docx_files, result, stdout>>

\* line 156: return zip_output_path
return_zip ==
    /\ pc = "zip" /\ zi > Len(docx_files)
    /\ result' = join(DocxTempDir, ZipName)
    /\ pc' = "done"
    /\ UNCHANGED <<findVars, loadVars>>
    /\ UNCHANGED <<zip_file, exc, tempdirs, disk, image_paths, conversations_data, ci, ni,
                   pi, doc, src, docx_dir, docx_files, zipf, zi, stdout>>

Next ==
    \/ extract \/ image_file_removed \/ load \/ begin_doc \/ next_node
    \/ render_part \/ save_doc \/ open_zip \/ zip_write \/ return_zip

Spec == Init /\ [][Next]_vars

(***************************************************************************)
(* Properties of generate_conversations_zip (Spec).                        *)
(***************************************************************************)
Ended == pc \in {"done", "raised"}
Rendering == pc \in {"nodes", "parts", "save"}

\* the outcome of create_conversation_doc on c in the current scratch state
Outcome(c) == create_conversation_doc(c, image_paths, disk, tempdirs, DocxTempDir)
RendersOk(c) == Outcome(c).raised = "none"

ArcNames(z) == [k \in 1..Len(z) |-> z[k].arcname]
Texts(d) == [k \in 1..Len(d) |-> d[k].text]
NonEmpty(t) == t # <<>>

RECURSIVE Flatten(_)
Flatten(ss) == IF ss = <<>> THEN <<>> ELSE Head(ss) \o Flatten(Tail(ss))

\* C1: when rendering one conversation fails, the batch is not aborted: the run
\* still returns the archive, and the archive holds exactly the documents of
\* the conversations that render successfully, in log order.
C1_RenderFailureKeepsBatch ==
    (/\ Ended /\ Len(conversations_data) >= 2
     /\ \E k \in 1..Len(conversations_data) : RendersOk(conversations_data[k])) =>
        /\ pc = "done"
        /\ LET ok == SelectSeq(conversations_data, RendersOk)
           IN ArcNames(zipf) =
                [k \in 1..Len(ok) |-> basename(output_file_path(ok[k], DocxTempDir))]

\* C3: whenever the run has ended, by returning or by raising, no directory
\* made by tempfile.mkdtemp exists any more.
C3_ScratchDirsDeleted == Ended => tempdirs = {}

\* C5: after a successful run the archive's entry names are the base filenames
\* of the produced documents, one entry per rendered conversation, in the
\* order of the log.
C5_EntriesMatchDocuments ==
    pc = "done" =>
        /\ Len(zipf) = Len(conversations_data)
        /\ Len(zipf) = Cardinality({k \in 1..Len(conversations_data) :
                                      RendersOk(conversations_data[k])})
        /\ \A k \in 1..Len(zipf) :
              /\ zipf[k].arcname = replace_spaces(conversations_data[k].title) \o DocxSuffix
              /\ \A j \in 1..Len(zipf[k].arcname) : zipf[k].arcname[j] # "/"
              /\ docx_files[k] = DocxTempDir \o <<"/">> \o zipf[k].arcname

C5_Witness ==
    /\ pc = "done" /\ Len(zipf) = 3
    /\ zipf[1].arcname # zipf[2].arcname /\ zipf[2].arcname # zipf[3].arcname
    /\ zipf[1].arcname # zipf[3].arcname

\* the last conversation of the log saved under the path of conversation j
LastWithPathOf(j) ==
    CHOOSE k \in 1..Len(conversations_data) :
        /\ output_file_path(conversations_data[k], DocxTempDir)
             = output_file_path(conversations_data[j], DocxTempDir)
        /\ \A m \in 1..Len(conversations_data) :
              output_file_path(conversations_data[m], DocxTempDir)
                = output_file_path(conversations_data[j], DocxTempDir) => m <= k

\* C6: when two conversations of a run map to the same filename, the archive
\* holds exactly one entry under that name, with the document of the last such
\* conversation of the log.
C6_CollisionLeavesOneEntry ==
    pc = "done" =>
        \A j \in 1..Len(conversations_data) :
            LET name == basename(output_file_path(conversations_data[j], DocxTempDir))
                hits == {e \in 1..Len(zipf) : zipf[e].arcname = name}
            IN /\ Cardinality(hits) = 1
               /\ \A e \in hits :
                     zipf[e].content = Outcome(conversations_data[LastWithPathOf(j)]).doc

\* whether a precedes or equals b in the traversal: node first, then part
NotAfter(a, b) == a[1] < b[1] \/ (a[1] = b[1] /\ a[2] <= b[2])

\* C4: the title paragraph is the first item of every document, whatever the
\* mapping, and the items after it are in the stored order of the mapping's
\* nodes and, within a node, in the order of its parts.
C4_TitleFirstThenStoredOrder ==
    /\ Rendering =>
          /\ Len(doc) >= 2 /\ Len(src) = Len(doc)
          /\ doc[1].style = "Title" /\ doc[1].text = conversation.title
          /\ \A a \in 2..Len(doc) : doc[a].style # "Title"
          /\ \A a, b \in 1..Len(doc) : a < b => NotAfter(src[a], src[b])
          /\ \A a \in 1..Len(doc) :
                src[a] # <<0, 0>> =>
                    /\ src[a][1] \in 1..Len(conversation.mapping)
                    /\ src[a][2] \in 1..Len(conversation.mapping[src[a][1]].parts)
                    /\ \E k \in 1..Len(part_items(conversation.mapping[src[a][1]].role,
                                           conversation.mapping[src[a][1]].parts[src[a][2]],
                                           image_paths, disk)) :
                          doc[a] = part_items(conversation.mapping[src[a][1]].role,
                                      conversation.mapping[src[a][1]].parts[src[a][2]],
                                      image_paths, disk)[k]
    /\ \A k \in 1..Len(docx_dir) : docx_dir[k].content[1].style = "Title"

C4_Witness ==
    /\ pc = "save" /\ Len(doc) >= 4
    /\ \E a, b \in 3..Len(doc) : a < b /\ src[a][1] < src[b][1]

C4_WitnessEmptyMapping ==
    pc = "save" /\ conversation.mapping = <<>> /\ Len(doc) = 2

\* the index entry an identifier resolves to: "unmatched", or what is at the
\* path of the first entry whose name starts with it
Resolution(part) ==
    LET id == basename(part.asset_pointer)
        matches == {k \in 1..Len(image_paths) :
                      /\ Len(image_paths[k].file_name) >= Len(id)
                      /\ \A j \in 1..Len(id) : image_paths[k].file_name[j] = id[j]}
    IN IF matches = {} THEN "unmatched"
       ELSE FileAt(disk, image_paths[CHOOSE k \in matches : \A j \in matches : k <= j].path)

IsImagePart(part) == part.type = "dict" /\ part.content_type = "image_asset_pointer"

\* the step that renders an image part whose image cannot be embedded
C7_ImageStep ==
    (/\ pc = "parts" /\ pi <= Len(node_data.parts)
     /\ IsImagePart(node_data.parts[pi])
     /\ Resolution(node_data.parts[pi]) # "image") =>
        /\ pc' = "parts" /\ exc' = "none" /\ pi' = pi + 1 /\ ni' = ni
        /\ Resolution(node_data.parts[pi]) \in {"unmatched", "absent"} =>
              /\ doc' = doc
              /\ stdout' = Append(stdout, basename(node_data.parts[pi].asset_pointer))
        /\ Resolution(node_data.parts[pi]) = "corrupt" =>
              /\ stdout' = stdout
              /\ Len(doc') = Len(doc) + 1 /\ SubSeq(doc', 1, Len(doc)) = doc
              /\ doc'[Len(doc')].kind = "paragraph"
              /\ startswith(doc'[Len(doc')].text, ErreurPrefix)

\* a document is only ever aborted by a message without author or by a title
\* that names no file of the scratch directory
C7_AbortsAreNotImages ==
    (pc = "raised" /\ ci \in 1..Len(conversations_data)) =>
        \/ /\ exc = "KeyError"
           /\ \E n \in 1..Len(conversation.mapping) :
                 conversation.mapping[n].has_message /\ ~conversation.mapping[n].has_author
        \/ /\ exc = "FileNotFoundError"
           /\ \E k \in 1..Len(conversation.title) : conversation.title[k] = "/"

\* a run whose messages all have an author and whose titles all name a file of
\* the scratch directory ends by returning the archive, one entry per conversation
C7_RunCompletes ==
    (/\ Ended /\ Len(conversations_data) >= 1
     /\ \A c \in 1..Len(conversations_data) :
           /\ \A n \in 1..Len(conversations_data[c].mapping) :
                 conversations_data[c].mapping[n].has_message
                     => conversations_data[c].mapping[n].has_author
           /\ \A k \in 1..Len(conversations_data[c].title) :
                 conversations_data[c].title[k] # "/") =>
        /\ pc = "done" /\ result = DocxTempDir \o <<"/">> \o ZipName
        /\ Len(zipf) = Len(conversations_data)

\* C7: an image part never aborts its document: an identifier that matches no
\* indexed file, or whose file is gone, adds nothing and prints a diagnostic;
\* a file that cannot be opened adds an error paragraph; rendering goes on to
\* the next part, no run is ended by an image, and the run returns the archive.
C7_ImagePartNeverAborts ==
    [][C7_ImageStep]_vars /\ []C7_AbortsAreNotImages /\ []C7_RunCompletes

\* an image that cannot be opened, and a text part rendered after it
C7_Witness ==
    /\ pc = "done" /\ Len(zipf) = 1
    /\ \E a \in 1..Len(zipf[1].content) :
          /\ startswith(zipf[1].content[a].text, ErreurPrefix)
          /\ a < Len(zipf[1].content)
          /\ startswith(zipf[1].content[a + 1].text, UtilisateurPrefix)

\* an identifier that matches nothing, then one whose file is gone, then a text
C7_WitnessMissing ==
    /\ pc = "done" /\ Len(zipf) = 1 /\ stdout = <<PointerXyz, Abc123>>
    /\ Texts(zipf[1].content) = <<Hello, <<>>, AssistantPrefix \o Hello>>

IsBlankText(part) ==
    part.type = "str" /\ \A k \in 1..Len(part.text) : part.text[k] \in Whitespace
IsUnknownShape(part) == part.type # "str" /\ ~IsImagePart(part)
Contributes(part) == ~IsBlankText(part) /\ ~IsUnknownShape(part)
HasMessage(node) == node.has_message

\* the conversation without its message-less nodes, blank texts and unknown parts
WithoutSkipped(c) ==
    LET nodes == SelectSeq(c.mapping, HasMessage)
    IN [title |-> c.title,
        mapping |-> [n \in 1..Len(nodes) |->
                       [nodes[n] EXCEPT !.parts = SelectSeq(nodes[n].parts, Contributes)]]]

\* C9: nodes without a message, whitespace-only text parts and parts of unknown
\* shape contribute nothing and raise nothing: the saved document, and any
\* exception, are those of the conversation with these nodes and parts removed.
C9_SkippedContributeNothing ==
    /\ (pc = "loop" /\ ci > 1) =>
          LET r == Outcome(WithoutSkipped(conversations_data[ci - 1]))
          IN r.raised = "none" /\ Saved(docx_dir, r.path) = r.doc
    /\ (pc = "raised" /\ ci \in 1..Len(conversations_data)) =>
          Outcome(WithoutSkipped(conversation)).raised = exc

C9_Witness ==
    /\ pc = "loop" /\ ci = 2
    /\ \E n \in 1..Len(conversations_data[1].mapping) :
          ~conversations_data[1].mapping[n].has_message
    /\ \E n \in 1..Len(conversations_data[1].mapping) :
          \E k, j \in 1..Len(conversations_data[1].mapping[n].parts) :
              /\ IsBlankText(conversations_data[1].mapping[n].parts[k])
              /\ IsUnknownShape(conversations_data[1].mapping[n].parts[j])

NoImageParts(c) ==
    \A n \in 1..Len(c.mapping) : \A k \in 1..Len(c.mapping[n].parts) :
        ~IsImagePart(c.mapping[n].parts[k])

OnlyUserAndAssistant(c) ==
    \A n \in 1..Len(c.mapping) :
        c.mapping[n].has_message => c.mapping[n].role \in {"user", "assistant"}

Identity(t) == t

\* one text per non-blank text part, in order: the prefix of its role, then its text
TextsWith(mapping, user_prefix, other_prefix, Clean(_)) ==
    Flatten([n \in 1..Len(mapping) |->
        IF ~mapping[n].has_message THEN <<>>
        ELSE Flatten([k \in 1..Len(mapping[n].parts) |->
                IF mapping[n].parts[k].type = "str" /\ ~IsBlankText(mapping[n].parts[k])
                THEN << (IF mapping[n].role = "user" THEN user_prefix ELSE other_prefix)
                        \o Clean(mapping[n].parts[k].text) >>
                ELSE <<>>])])

ClaimedUserPrefix == <<"U", "t", "i", "l", "i", "s", "a", "t", "e", "u", "r", ":", " ">>
ClaimedAssistantPrefix == <<"A", "s", "s", "i", "s", "t", "a", "n", "t", ":", " ">>
DemoDocx == <<"D", "e", "m", "o", ".", "d", "o", "c", "x">>
UtilisateurHello == <<"U", "t", "i", "l", "i", "s", "a", "t", "e", "u", "r", " ", ":", " ", "H", "e", "l", "l", "o">>
AssistantWorld == <<"A", "s", "s", "i", "s", "t", "a", "n", "t", " ", ":", " ", "W", "o", "r", "l", "d">>

NoArchive == Archive(FALSE, "missing", <<>>, [has_dalle |-> FALSE, dalle |-> <<>>])

FindNames == {Abc123Png, Abc123v2Png, AbcPng, XyzJpg}
FindPointers == {Abc123, Abc, PointerXyz, Png, Abc123Png, <<>>}

\* the listings of at most MaxFiles distinct file names, in any order
FindListings ==
    { f \in UNION { [1..m -> FindNames] : m \in 0..MaxFiles } :
        \A a, b \in 1..Len(f) : a # b => f[a] # f[b] }

\* the index map_images_to_identifiers builds from a listing of regular files
FindIndexes ==
    { map_images_to_identifiers(join(ExtractPath, DalleDir),
                                [k \in 1..Len(f) |-> [file_name |-> f[k], content |-> "image"]]) :
        f \in FindListings }

InitFind ==
    /\ zip_file = NoArchive /\ RunIdle /\ LoadIdle
    /\ asset_pointer \in FindPointers
    /\ index \in FindIndexes
    /\ found = [called |-> FALSE, hit |-> None]

\* a call find_image_for_asset(asset_pointer, image_paths)
find ==
    /\ ~found.called
    /\ found' = [called |-> TRUE, hit |-> find_image_for_asset(asset_pointer, index)]
    /\ UNCHANGED <<asset_pointer, index, runVars, loadVars>>

NextFind == find

SpecFind == InitFind /\ [][NextFind]_vars

\* the positions of the index whose file name begins with the identifier
Matching ==
    {k \in 1..Len(index) :
        /\ Len(asset_pointer) <= Len(index[k].file_name)
        /\ \A j \in 1..Len(asset_pointer) : index[k].file_name[j] = asset_pointer[j]}

\* C8: find_image_for_asset returns the path of the first indexed file name, in
\* the order of the index, that starts with the identifier, and None when no
\* file name starts with it; "abc123" with the one entry "abc123.png" resolves
\* to that entry's path.
C8_FirstPrefixMatch ==
    found.called =>
        /\ Matching = {} => found.hit = None
        /\ Matching # {} =>
              /\ found.hit.found
              /\ found.hit.path = index[CHOOSE k \in Matching : \A j \in Matching : k <= j].path
        /\ found.hit.found => \E k \in Matching : index[k].path = found.hit.path
        /\ (asset_pointer = Abc123 /\ Len(index) = 1 /\ index[1].file_name = Abc123Png) =>
              found.hit = Some(index[1].path)

C8_Witness ==
    /\ found.called /\ Len(index) = 2 /\ Matching = {1, 2}
    /\ found.hit.path = index[1].path /\ index[1].path # index[2].path

C8_WitnessNotFound ==
    found.called /\ Len(index) = 2 /\ Matching = {} /\ ~found.hit.found

(***************************************************************************)
(* load_json_with_fallback on its own (SpecLoad).  Text is a sequence of   *)
(* code points, a file a sequence of bytes.                                *)
(***************************************************************************)
IsContinuation(b) == 128 <= b /\ b <= 191

\* bytes.decode('utf-8'), strict: [ok, text]
RECURSIVE utf8_decode(_)
utf8_decode(bytes) ==
    IF bytes = <<>> THEN [ok |-> TRUE, text |-> <<>>]
    ELSE LET b == bytes[1]
             n == IF b < 128 THEN 1
                  ELSE IF 194 <= b /\ b <= 223 THEN 2
                  ELSE IF 224 <= b /\ b <= 239 THEN 3
                  ELSE IF 240 <= b /\ b <= 244 THEN 4
                  ELSE 0
             wellformed ==
                 /\ n # 0 /\ Len(bytes) >= n
                 /\ \A k \in 2..n : IsContinuation(bytes[k])
                 /\ (b = 224 => bytes[2] >= 160) /\ (b = 237 => bytes[2] <= 159)
                 /\ (b = 240 => bytes[2] >= 144) /\ (b = 244 => bytes[2] <= 143)
             cp == IF n = 1 THEN b
                   ELSE IF n = 2 THEN (b - 192) * 64 + (bytes[2] - 128)
                   ELSE IF n = 3
                   THEN (b - 224) * 4096 + (bytes[2] - 128) * 64 + (bytes[3] - 128)
                   ELSE (b - 240) * 262144 + (bytes[2] - 128) * 4096
                        + (bytes[3] - 128) * 64 + (bytes[4] - 128)
         IN IF ~wellformed THEN [ok |-> FALSE, text |-> <<>>]
            ELSE LET rest == utf8_decode(SubSeq(bytes, n + 1, Len(bytes)))
                 IN [ok |-> rest.ok, text |-> IF rest.ok THEN <<cp>> \o rest.text ELSE <<>>]

\* open(file_path, 'r', encoding=encoding).read(): latin-1 and its alias
\* iso-8859-1 map every byte to the code point of the same number
decode(bytes, encoding) ==
    IF encoding = "utf-8" THEN utf8_decode(bytes) ELSE [ok |-> TRUE, text |-> bytes]

\* json.load on the logs of the model, [ok, value]: "[]" is the empty list and
\* ["..."] a list of one string; a string holds no quote, backslash or control
\* character; any other text is a JSONDecodeError
json_load(text) ==
    IF text = <<91, 93>> THEN [ok |-> TRUE, value |-> <<>>]
    ELSE IF /\ Len(text) >= 4
            /\ text[1] = 91 /\ text[2] = 34
            /\ text[Len(text) - 1] = 34 /\ text[Len(text)] = 93
            /\ \A k \in 3..(Len(text) - 2) :
                  text[k] # 34 /\ text[k] # 92 /\ text[k] >= 32
    THEN [ok |-> TRUE, value |-> << SubSeq(text, 3, Len(text) - 2) >>]
    ELSE [ok |-> FALSE, value |-> <<>>]

\* variant: latin-1 tried before utf-8
latin1_first == <<"latin-1", "utf-8", "iso-8859-1">>

\* line 13
encodings == <<"utf-8", "latin-1", "iso-8859-1">>

\* what writes the log: str.encode(encoding), for the text it can encode
utf8_encode(cp) ==
    IF cp < 128 THEN <<cp>>
    ELSE IF cp < 2048 THEN <<192 + (cp \div 64), 128 + (cp % 64)>>
    ELSE <<224 + (cp \div 4096), 128 + ((cp \div 64) % 64), 128 + (cp % 64)>>

encode_char(cp, encoding) ==
    IF encoding = "utf-8" THEN utf8_encode(cp)
    ELSE IF encoding = "utf-16" THEN <<cp % 256, cp \div 256>>
    ELSE IF encoding = "cp1252" /\ cp = 8364 THEN <<128>>
    ELSE <<cp>>

can_encode(text, encoding) ==
    \A k \in 1..Len(text) :
        \/ encoding \in {"utf-8", "utf-16"}
        \/ encoding \in {"latin-1", "iso-8859-1"} /\ text[k] < 256
        \/ encoding = "cp1252" /\ (text[k] < 128 \/ (160 <= text[k] /\ text[k] < 256)
                                   \/ text[k] = 8364)

encode(text, encoding) ==
    (IF encoding = "utf-16" THEN <<255, 254>> ELSE <<>>)
    \o Flatten([k \in 1..Len(text) |-> encode_char(text[k], encoding)])

\* A, e acute, A tilde, copyright sign, euro sign
TitleChars == {65, 233, 195, 169, 8364}

\* the logs: [] and ["<title>"]
LogTexts ==
    { <<91, 93>> } \cup
    { <<91, 34>> \o t \o <<34, 93>> :
        t \in UNION { [1..n -> TitleChars] : n \in 0..MaxTitleLen } }

WriterEncodings == {"utf-8", "latin-1", "iso-8859-1", "cp1252", "utf-16"}

InitLoad ==
    /\ zip_file = NoArchive /\ RunIdle /\ FindIdle
    /\ log_text \in LogTexts
    /\ log_encoding \in WriterEncodings
    /\ can_encode(log_text, log_encoding)
    /\ file_bytes = encode(log_text, log_encoding)
    /\ enc_i = 1 /\ load_pc = "loop" /\ load_result = <<>>

\* lines 14-19: one turn of the loop over the encodings
try_encoding ==
    /\ load_pc = "loop" /\ enc_i <= Len(encodings)
    /\ LET read == decode(file_bytes, encodings[enc_i])
       IN IF read.ok /\ json_load(read.text).ok
          THEN /\ load_result' = json_load(read.text).value
               /\ load_pc' = "returned"
               /\ UNCHANGED enc_i
          ELSE /\ enc_i' = enc_i + 1
               /\ UNCHANGED <<load_pc, load_result>>
    /\ UNCHANGED <<log_text, log_encoding, file_bytes, runVars, findVars>>

\* line 20: raise ValueError
raise_value_error ==
    /\ load_pc = "loop" /\ enc_i > Len(encodings)
    /\ load_pc' = "raised"
    /\ UNCHANGED <<log_text, log_encoding, file_bytes, enc_i, load_result, runVars, findVars>>

NextLoad == try_encoding \/ raise_value_error

SpecLoad == InitLoad /\ [][NextLoad]_vars

\* the encodings of the claim, in its order
Utf8ThenLatin1 == <<"utf-8", "latin-1", "iso-8859-1">>

\* reading the file with the k-th encoding decodes and parses
Parses(k) ==
    /\ decode(file_bytes, Utf8ThenLatin1[k]).ok
    /\ json_load(decode(file_bytes, Utf8ThenLatin1[k]).text).ok

\* the file is the log's text in one of the three encodings
SupportedEncoding ==
    \E e \in {"utf-8", "latin-1", "iso-8859-1"} :
        can_encode(log_text, e) /\ encode(log_text, e) = file_bytes

LoadEnded == load_pc \in {"returned", "raised"}

\* C2 as stated: the encodings are tried in the order utf-8, latin-1,
\* iso-8859-1 and the first that decodes and parses gives the result; a log in
\* a supported encoding loads, and a log in none of them raises.
C2_AsStated ==
    LoadEnded =>
        /\ load_pc = "returned" =>
              /\ Parses(enc_i) /\ \A j \in 1..(enc_i - 1) : ~Parses(j)
              /\ load_result = json_load(decode(file_bytes, Utf8ThenLatin1[enc_i]).text).value
        /\ SupportedEncoding => load_pc = "returned"
        /\ ~SupportedEncoding => load_pc = "raised"

\* C2, amended: the encodings are tried in the order utf-8, latin-1,
\* iso-8859-1 and the first that decodes and parses gives the result, no later
\* one being tried; a log in a supported encoding loads; the load raises exactly
\* when no encoding of the list decodes and parses the file, so a log in
\* another encoding raises only if its bytes read as latin-1 are not JSON, and
\* is otherwise returned as read with the first encoding that parses.
C2_FirstEncodingThatParses ==
    /\ load_pc = "returned" =>
          /\ enc_i \in 1..3
          /\ Parses(enc_i) /\ \A j \in 1..(enc_i - 1) : ~Parses(j)
          /\ load_result = json_load(decode(file_bytes, Utf8ThenLatin1[enc_i]).text).value
    /\ load_pc = "raised" => \A k \in 1..3 : ~Parses(k)
    /\ LoadEnded =>
          /\ SupportedEncoding => load_pc = "returned"
          /\ ~SupportedEncoding =>
                (load_pc = "raised" <=>
                    ~json_load(decode(file_bytes, "latin-1").text).ok)

\* a log in cp1252 is returned, with a title that is not the one written
C2_Witness ==
    /\ load_pc = "returned" /\ log_encoding = "cp1252" /\ ~SupportedEncoding
    /\ enc_i = 2 /\ load_result # json_load(log_text).value

C2_WitnessRaised ==
    load_pc = "raised" /\ log_encoding = "utf-16" /\ load_result = <<>>

C2_WitnessUtf8 ==
    load_pc = "returned" /\ log_encoding = "utf-8" /\ enc_i = 1 /\ Len(file_bytes) > Len(log_text)

====
